---- MODULE Spec2Model ----
(***************************************************************************)
(* Backend process supervisor of the TradingAgents desktop shell           *)
(* (tradingagents-ui/src-tauri/src/main.rs).                               *)
(*                                                                         *)
(* Conventions.                                                            *)
(*   Option<T>   : <<>> is None / Err, <<v>> is Some(v) / Ok(v).           *)
(*   PathBuf     : the sequence of the pieces it was built from;           *)
(*                 PathBuf::from(s) = <<s>>, push / join append a piece.   *)
(*   Child       : the process id of the spawned process (a number).       *)
(* The mutex of BackendState is never poisoned (nothing panics while it is *)
(* held), so lock() always yields Ok and each critical section is one      *)
(* atomic step.                                                            *)
(***************************************************************************)
EXTENDS Integers, Sequences, FiniteSets, TLC

VARIABLES
    env,            \* process environment: variable name -> Option<String>
    fs,             \* the set of paths that exist on disk
    windows,        \* cfg!(target_os = "windows")
    cwd,            \* env::current_dir(): <<dir>> or <<>> on error
    resource_dir,   \* the bundle's resource directory, <<>> if unresolvable
    child,          \* BackendState.child : Option<Child>
    pc,             \* position of the application: setup, spawned, running, exited, panicked
    spawn_result,   \* setup's result of spawn_backend: <<pid>> (Ok) or <<>> (Err)
    spawned,        \* pids of the processes created by Command::spawn
    killed,         \* sequence of the Child::kill calls made: [pid, ok]
    waited,         \* pids on which Child::wait was called
    script_path,    \* result of the last locate_backend_script call
    python,         \* <<path>> once preferred_python has been called
    command,        \* <<cmd>> once Command::spawn has been attempted
    warnings,       \* number of warning lines printed
    stdout,         \* the lines printed, in order
    dead,           \* pids of the children that exited or were killed from outside
    lock,           \* holder of the BackendState mutex: "free", "setup", "run"
    t_setup,        \* the setup callback when it runs on a thread of its own:
                    \* start, spawning, spawned, replacing, done
    t_run,          \* the run callback when it runs on a thread of its own:
                    \* idle, ExitRequested or Exit (inside stop), ended
    startCalls,     \* number of spawn_backend calls (start)
    stopCalls,      \* number of BackendState::stop calls
    stopReturn,     \* how the last stop call ended: "none" (not called), "unit"
    exitRequests,   \* number of RunEvent::ExitRequested delivered
    lastEvent,      \* the last RunEvent delivered to the run callback
    setupResult     \* what the setup hook returned: "none" (not yet), "Ok", "Err"

vars == <<env, fs, windows, cwd, resource_dir, child, pc, spawn_result, spawned,
          killed, waited, script_path, python, command, warnings, startCalls,
          stopCalls, stopReturn, exitRequests, lastEvent, setupResult,
          stdout, dead, lock, t_setup, t_run>>

\* How many ExitRequested events the event loop delivers before Exit.
MaxExitRequested == 1

None == <<>>
Some(v) == <<v>>

---------------------------------------------------------------------------
(* Environment and filesystem                                              *)

PyOverride == "/opt/custom/py"
ScriptOverride == "/custom/backend.py"
VenvRoot == "/venv"
WorkDir == "/work"
ResourceRoot == "$RESOURCE"

PathBuf_from(s) == <<s>>
push(path, piece) == Append(path, piece)
exists(path) == path \in fs

env_var(name) == env[name]

\* AppHandle::path_resolver().resolve_resource(candidate)
resolve_resource(candidate) ==
    IF resource_dir = None THEN None ELSE Some(push(resource_dir[1], candidate))

\* env::current_dir().unwrap_or_else(|_| PathBuf::from("."))
current_dir_or_dot == IF cwd = None THEN PathBuf_from(".") ELSE cwd[1]

resource_candidates == <<"run_backend.py", "../run_backend.py", "../../run_backend.py">>
cwd_candidates == <<"run_backend.py", "../run_backend.py">>

---------------------------------------------------------------------------
(* Interpreter resolver                                                    *)

\* Resolver that takes the override without testing that it exists.
preferred_python_unchecked ==
    LET explicit == env_var("TRADINGAGENTS_PYTHON")
        venv == env_var("VIRTUAL_ENV")
        candidate == IF windows
                     THEN push(push(PathBuf_from(venv[1]), "Scripts"), "python.exe")
                     ELSE push(push(PathBuf_from(venv[1]), "bin"), "python")
    IN  IF explicit # None
        THEN PathBuf_from(explicit[1])
        ELSE IF venv # None /\ exists(candidate)
        THEN candidate
        ELSE IF windows THEN PathBuf_from("python.exe") ELSE PathBuf_from("python3")

\* Resolver that prefers the virtual environment to the override.
preferred_python_venv_first ==
    LET explicit == env_var("TRADINGAGENTS_PYTHON")
        venv == env_var("VIRTUAL_ENV")
        candidate == IF windows
                     THEN push(push(PathBuf_from(venv[1]), "Scripts"), "python.exe")
                     ELSE push(push(PathBuf_from(venv[1]), "bin"), "python")
    IN  IF venv # None /\ exists(candidate)
        THEN candidate
        ELSE IF explicit # None /\ exists(PathBuf_from(explicit[1]))
        THEN PathBuf_from(explicit[1])
        ELSE IF windows THEN PathBuf_from("python.exe") ELSE PathBuf_from("python3")

\* Resolver whose fallback is the bare name python on every platform.
preferred_python_bare_python ==
    LET explicit == env_var("TRADINGAGENTS_PYTHON")
        venv == env_var("VIRTUAL_ENV")
        candidate == IF windows
                     THEN push(push(PathBuf_from(venv[1]), "Scripts"), "python.exe")
                     ELSE push(push(PathBuf_from(venv[1]), "bin"), "python")
    IN  IF explicit # None /\ exists(PathBuf_from(explicit[1]))
        THEN PathBuf_from(explicit[1])
        ELSE IF venv # None /\ exists(candidate)
        THEN candidate
        ELSE PathBuf_from("python")

preferred_python ==
    LET explicit == env_var("TRADINGAGENTS_PYTHON")
        venv == env_var("VIRTUAL_ENV")
        candidate == IF windows
                     THEN push(push(PathBuf_from(venv[1]), "Scripts"), "python.exe")
                     ELSE push(push(PathBuf_from(venv[1]), "bin"), "python")
    IN  IF explicit # None /\ exists(PathBuf_from(explicit[1]))
        THEN PathBuf_from(explicit[1])
        ELSE IF venv # None /\ exists(candidate)
        THEN candidate
        ELSE IF windows THEN PathBuf_from("python.exe") ELSE PathBuf_from("python3")

---------------------------------------------------------------------------
(* Script locator                                                          *)

\* for candidate in resource_candidates { ... return Some(path) ... }, from index i
RECURSIVE first_resource(_)
first_resource(i) ==
    IF i > Len(resource_candidates) THEN None
    ELSE LET path == resolve_resource(resource_candidates[i])
         IN  IF path # None /\ exists(path[1]) THEN Some(path[1])
             ELSE first_resource(i + 1)

\* for relative in &["run_backend.py", "../run_backend.py"] { ... }, from index i
RECURSIVE first_cwd(_)
first_cwd(i) ==
    IF i > Len(cwd_candidates) THEN None
    ELSE LET candidate == push(current_dir_or_dot, cwd_candidates[i])
         IN  IF exists(candidate) THEN Some(candidate)
             ELSE first_cwd(i + 1)

\* Locator that consults the override only after the automatic candidates.
locate_override_last ==
    LET explicit == env_var("TRADINGAGENTS_BACKEND_SCRIPT")
    IN  IF first_resource(1) # None
        THEN first_resource(1)
        ELSE IF first_cwd(1) # None
        THEN first_cwd(1)
        ELSE IF explicit # None /\ exists(PathBuf_from(explicit[1]))
        THEN Some(PathBuf_from(explicit[1]))
        ELSE None

\* Locator that searches the working directory before the resources.
locate_cwd_first ==
    LET explicit == env_var("TRADINGAGENTS_BACKEND_SCRIPT")
    IN  IF explicit # None /\ exists(PathBuf_from(explicit[1]))
        THEN Some(PathBuf_from(explicit[1]))
        ELSE IF first_cwd(1) # None
        THEN first_cwd(1)
        ELSE first_resource(1)

locate_backend_script ==
    LET explicit == env_var("TRADINGAGENTS_BACKEND_SCRIPT")
    IN  IF explicit # None /\ exists(PathBuf_from(explicit[1]))
        THEN Some(PathBuf_from(explicit[1]))
        ELSE IF first_resource(1) # None
        THEN first_resource(1)
        ELSE first_cwd(1)

---------------------------------------------------------------------------
(* spawn_backend: locate the script, resolve the interpreter, spawn.       *)
(* osOk is the outcome of Command::spawn, pid the process it creates.      *)

Command(program, script) ==
    [program |-> program, args |-> <<script>>,
     stdin |-> "null", stdout |-> "null", stderr |-> "null"]

\* spawn_backend that falls back to a bare script name (unwrap_or) instead of
\* returning the NotFound error.
spawn_backend_unchecked(osOk, pid) ==
    LET located == locate_backend_script
        script == IF located = None THEN PathBuf_from("run_backend.py") ELSE located[1]
        py == preferred_python
    IN  [result  |-> IF osOk THEN Some(pid) ELSE None,
         error   |-> IF osOk THEN "" ELSE "Io",
         script  |-> located,
         python  |-> Some(py),
         command |-> Some(Command(py, script)),
         created |-> IF osOk THEN {pid} ELSE {}]

spawn_backend(osOk, pid) ==
    LET located == locate_backend_script
    IN  IF located = None
        THEN [result |-> None, error |-> "NotFound", script |-> located,
              python |-> None, command |-> None, created |-> {}]
        ELSE LET py == preferred_python
             IN  [result  |-> IF osOk THEN Some(pid) ELSE None,
                  error   |-> IF osOk THEN "" ELSE "Io",
                  script  |-> located,
                  python  |-> Some(py),
                  command |-> Some(Command(py, located[1])),
                  created |-> IF osOk THEN {pid} ELSE {}]

---------------------------------------------------------------------------
(* BackendState                                                            *)

\* BackendState::new
new == None

\* replace that stores nothing: the guard is left as it was.
replace_dropped(guard, c) == guard

\* BackendState::replace: the new content of the mutex
replace(guard, c) == Some(c)

\* stop that looks at the handle (as_mut) instead of taking it.
stop_peek(s, killOk) ==
    LET after == [s EXCEPT !.ret = "unit"]
    IN  IF s.child # None
        THEN [after EXCEPT !.killed = Append(@, [pid |-> s.child[1], ok |-> killOk])]
        ELSE after

\* stop that unwraps the taken handle: it panics when none is held.
stop_unwrap(s, killOk) ==
    LET taken == s.child
        after == [s EXCEPT !.child = None, !.ret = "unit"]
    IN  IF taken # None
        THEN [after EXCEPT !.killed = Append(@, [pid |-> taken[1], ok |-> killOk])]
        ELSE [after EXCEPT !.ret = "panic"]

\* stop that returns the kill error to its caller (child.kill()?).
stop_propagate(s, killOk) ==
    LET taken == s.child
        after == [s EXCEPT !.child = None, !.ret = "unit"]
    IN  IF taken # None
        THEN [after EXCEPT !.killed = Append(@, [pid |-> taken[1], ok |-> killOk]),
                           !.ret = IF killOk THEN "unit" ELSE "err"]
        ELSE after

\* BackendState::stop on s = [child, killed, waited, ret]; killOk is the
\* outcome of Child::kill, which is discarded.
stop(s, killOk) ==
    LET taken == s.child
        after == [s EXCEPT !.child = None, !.ret = "unit"]
    IN  IF taken # None
        THEN [after EXCEPT !.killed = Append(@, [pid |-> taken[1], ok |-> killOk])]
        ELSE after

---------------------------------------------------------------------------
(* The application: tauri::Builder ... .manage(..).setup(..).build(..).run(..) *)

\* The paths whose existence the program can consult in this environment;
\* the existence of any other path is immaterial and left out of fs.
Consulted ==
    (IF env_var("TRADINGAGENTS_BACKEND_SCRIPT") = None THEN {}
     ELSE {PathBuf_from(env_var("TRADINGAGENTS_BACKEND_SCRIPT")[1])})
    \cup (IF resource_dir = None THEN {}
          ELSE {push(resource_dir[1], resource_candidates[i]) :
                    i \in 1..Len(resource_candidates)})
    \cup {push(current_dir_or_dot, cwd_candidates[i]) : i \in 1..Len(cwd_candidates)}
    \cup (IF env_var("TRADINGAGENTS_PYTHON") = None THEN {}
          ELSE {PathBuf_from(env_var("TRADINGAGENTS_PYTHON")[1])})
    \cup (IF env_var("VIRTUAL_ENV") = None THEN {}
          ELSE {IF windows
                THEN <<env_var("VIRTUAL_ENV")[1], "Scripts", "python.exe">>
                ELSE <<env_var("VIRTUAL_ENV")[1], "bin", "python">>})

Init ==
    /\ env \in [TRADINGAGENTS_PYTHON : {None, Some(PyOverride)},
                VIRTUAL_ENV : {None, Some(VenvRoot)},
                TRADINGAGENTS_BACKEND_SCRIPT : {None, Some(ScriptOverride)}]
    /\ windows \in BOOLEAN
    /\ cwd \in {None, Some(PathBuf_from(WorkDir))}
    /\ resource_dir \in {None, Some(PathBuf_from(ResourceRoot))}
    /\ fs \in SUBSET Consulted
    /\ child = new
    /\ pc = "setup"
    /\ spawn_result = None
    /\ spawned = {}
    /\ killed = <<>>
    /\ waited = {}
    /\ script_path = None
    /\ python = None
    /\ command = None
    /\ warnings = 0
    /\ stdout = <<>>
    /\ dead = {}
    /\ lock = "free"
    /\ t_setup = "start"
    /\ t_run = "idle"
    /\ startCalls = 0
    /\ stopCalls = 0
    /\ stopReturn = "none"
    /\ exitRequests = 0
    /\ lastEvent = "none"
    /\ setupResult = "none"

\* What the program reads and never writes.
Environment == <<env, fs, windows, cwd, resource_dir, dead>>

\* Lock holder and thread positions, written by the callers of the callbacks.
Threads == <<lock, t_setup, t_run>>

\* The line of the println! of the setup hook (its backquotes left out).
WarningLine ==
    "warning: failed to spawn FastAPI backend. Launch manually with python run_backend.py --reload."

\* A pid no process created so far has.
fresh_pid == Cardinality(spawned) + 1

\* .build(..).expect(..): a setup hook returning Err aborts the application.
after_setup(result) == IF result = "Ok" THEN "running" ELSE "panicked"

\* setup hook, first half: spawn_backend(&app_handle), outside the lock.
setup_spawn(osOk) ==
    LET r == spawn_backend(osOk, fresh_pid)
    IN  /\ pc = "setup"
        /\ pc' = "spawned"
        /\ startCalls' = startCalls + 1
        /\ spawn_result' = r.result
        /\ spawned' = spawned \cup r.created
        /\ script_path' = r.script
        /\ python' = r.python
        /\ command' = r.command
        /\ UNCHANGED <<Environment, child, killed, waited, warnings, stdout, stopCalls,
                       stopReturn, exitRequests, lastEvent, setupResult>>

\* setup hook that propagates the spawn error (spawn_backend(..)?) instead of
\* printing the warning.
setup_finish_propagate ==
    /\ pc = "spawned"
    /\ IF spawn_result # None
       THEN /\ child' = replace(child, spawn_result[1])
            /\ setupResult' = "Ok"
            /\ pc' = after_setup("Ok")
       ELSE /\ setupResult' = "Err"
            /\ pc' = after_setup("Err")
            /\ UNCHANGED child
    /\ UNCHANGED <<Environment, spawn_result, spawned, killed, waited, script_path,
                   python, command, startCalls, stopCalls, stopReturn,
                   exitRequests, lastEvent, warnings, stdout>>

\* setup hook that prints the warning whatever spawn_backend returned (no else).
setup_finish_warn_always ==
    /\ pc = "spawned"
    /\ IF spawn_result # None
       THEN child' = replace(child, spawn_result[1])
       ELSE UNCHANGED child
    /\ warnings' = warnings + 1
    /\ stdout' = Append(stdout, WarningLine)
    /\ setupResult' = "Ok"
    /\ pc' = after_setup("Ok")
    /\ UNCHANGED <<Environment, spawn_result, spawned, killed, waited, script_path,
                   python, command, startCalls, stopCalls, stopReturn,
                   exitRequests, lastEvent>>

\* setup hook that retries: after a failed spawn it starts over.
setup_finish_retry ==
    /\ pc = "spawned"
    /\ IF spawn_result # None
       THEN /\ child' = replace(child, spawn_result[1])
            /\ setupResult' = "Ok"
            /\ pc' = after_setup("Ok")
            /\ UNCHANGED <<warnings, stdout>>
       ELSE /\ warnings' = warnings + 1
            /\ stdout' = Append(stdout, WarningLine)
            /\ pc' = "setup"
            /\ UNCHANGED <<child, setupResult>>
    /\ UNCHANGED <<Environment, spawn_result, spawned, killed, waited, script_path,
                   python, command, startCalls, stopCalls, stopReturn,
                   exitRequests, lastEvent>>

\* setup hook, second half: store the child or print the warning; Ok(()).
setup_finish ==
    /\ pc = "spawned"
    /\ IF spawn_result # None
       THEN /\ child' = replace(child, spawn_result[1])
            /\ UNCHANGED <<warnings, stdout>>
       ELSE /\ warnings' = warnings + 1
            /\ stdout' = Append(stdout, WarningLine)
            /\ UNCHANGED child
    /\ setupResult' = "Ok"
    /\ pc' = after_setup("Ok")
    /\ UNCHANGED <<Environment, spawn_result, spawned, killed, waited, script_path,
                   python, command, startCalls, stopCalls, stopReturn,
                   exitRequests, lastEvent>>

\* matches!(event, RunEvent::Exit)
is_exit_event_exit_only(event) == event = "Exit"

\* matches!(event, RunEvent::Exit | RunEvent::ExitRequested { .. })
is_exit_event(event) == event \in {"Exit", "ExitRequested"}

\* Run callback that also starts the backend on every Ready event.
on_run_event_respawn(event, killOk) ==
    /\ lastEvent' = event
    /\ IF is_exit_event(event)
       THEN LET r == stop([child |-> child, killed |-> killed,
                           waited |-> waited, ret |-> stopReturn], killOk)
            IN  /\ child' = r.child
                /\ killed' = r.killed
                /\ waited' = r.waited
                /\ stopReturn' = r.ret
                /\ stopCalls' = stopCalls + 1
                /\ UNCHANGED <<spawned, startCalls>>
       ELSE IF event = "Ready"
       THEN LET r == spawn_backend(TRUE, fresh_pid)
            IN  /\ child' = IF r.result # None THEN replace(child, r.result[1]) ELSE child
                /\ spawned' = spawned \cup r.created
                /\ startCalls' = startCalls + 1
                /\ UNCHANGED <<killed, waited, stopReturn, stopCalls>>
       ELSE UNCHANGED <<child, killed, waited, stopReturn, stopCalls, spawned, startCalls>>
    /\ UNCHANGED <<Environment, spawn_result, script_path, python, command,
                   warnings, stdout, setupResult>>

\* Run callback that polls the child on other events and forgets a handle
\* whose process has exited (try_wait).
on_run_event_reap(event, killOk) ==
    /\ lastEvent' = event
    /\ IF is_exit_event(event)
       THEN LET r == stop([child |-> child, killed |-> killed,
                           waited |-> waited, ret |-> stopReturn], killOk)
            IN  /\ child' = r.child
                /\ killed' = r.killed
                /\ waited' = r.waited
                /\ stopReturn' = r.ret
                /\ stopCalls' = stopCalls + 1
       ELSE /\ child' = IF child # None /\ child[1] \in dead THEN None ELSE child
            /\ UNCHANGED <<killed, waited, stopReturn, stopCalls>>
    /\ UNCHANGED <<Environment, spawn_result, spawned, script_path, python, command,
                   warnings, stdout, startCalls, setupResult>>

\* The run callback on one event. The state was managed before setup, so
\* try_state always yields it.
on_run_event(event, killOk) ==
    /\ lastEvent' = event
    /\ IF is_exit_event(event)
       THEN LET r == stop([child |-> child, killed |-> killed,
                           waited |-> waited, ret |-> stopReturn], killOk)
            IN  /\ child' = r.child
                /\ killed' = r.killed
                /\ waited' = r.waited
                /\ stopReturn' = r.ret
                /\ stopCalls' = stopCalls + 1
       ELSE UNCHANGED <<child, killed, waited, stopReturn, stopCalls>>
    /\ UNCHANGED <<Environment, spawn_result, spawned, script_path, python, command,
                   warnings, stdout, startCalls, setupResult>>

\* The event loop delivers a non-exit event (Ready, window events, ...).
DeliverOther ==
    /\ pc = "running"
    /\ \E event \in {"Ready", "WindowEvent"} : on_run_event(event, TRUE)
    /\ UNCHANGED <<pc, exitRequests, Threads>>

\* The event loop delivers ExitRequested (last window closed, exit asked for).
DeliverExitRequested ==
    /\ pc = "running"
    /\ exitRequests < MaxExitRequested
    /\ \E killOk \in BOOLEAN : on_run_event("ExitRequested", killOk)
    /\ exitRequests' = exitRequests + 1
    /\ UNCHANGED <<pc, Threads>>

\* The event loop delivers Exit and ends.
DeliverExit ==
    /\ pc = "running"
    /\ \E killOk \in BOOLEAN : on_run_event("Exit", killOk)
    /\ pc' = "exited"
    /\ UNCHANGED <<exitRequests, Threads>>

SetupSpawn == (\E osOk \in BOOLEAN : setup_spawn(osOk)) /\ UNCHANGED Threads
SetupFinish == setup_finish /\ UNCHANGED Threads

\* A spawned child exits on its own or is killed from outside. Nothing in
\* the program waits on the child or polls it.
ChildExits ==
    /\ \E p \in spawned \ dead : dead' = dead \cup {p}
    /\ UNCHANGED <<env, fs, windows, cwd, resource_dir, child, pc, spawn_result,
                   spawned, killed, waited, script_path, python, command, warnings,
                   stdout, startCalls, stopCalls, stopReturn, exitRequests,
                   lastEvent, setupResult, Threads>>

Next ==
    \/ SetupSpawn
    \/ SetupFinish
    \/ DeliverOther
    \/ DeliverExitRequested
    \/ DeliverExit
    \/ ChildExits

Spec == Init /\ [][Next]_vars

---------------------------------------------------------------------------
(* The callbacks on different threads: the setup callback on one thread,   *)
(* the run callback on another, every interleaving of their steps, the     *)
(* mutex taken and released in steps of their own.                         *)

AllButThreads ==
    <<env, fs, windows, cwd, resource_dir, dead, child, pc, spawn_result, spawned,
      killed, waited, script_path, python, command, warnings, stdout, startCalls,
      stopCalls, stopReturn, exitRequests, lastEvent, setupResult>>

\* Setup hook that takes the guard before it calls spawn_backend.
setup_enter_spawn_locked ==
    /\ t_setup = "start"
    /\ lock = "free"
    /\ lock' = "setup"
    /\ t_setup' = "spawning"
    /\ UNCHANGED <<AllButThreads, t_run>>

\* The setup hook calls spawn_backend; no guard is held.
setup_enter_spawn ==
    /\ t_setup = "start"
    /\ t_setup' = "spawning"
    /\ UNCHANGED <<AllButThreads, lock, t_run>>

\* spawn_backend returns.
T_SpawnReturns ==
    /\ t_setup = "spawning"
    /\ \E osOk \in BOOLEAN : setup_spawn(osOk)
    /\ t_setup' = "spawned"
    /\ UNCHANGED <<lock, t_run>>

\* replace: self.child.lock()
T_ReplaceLock ==
    /\ t_setup = "spawned"
    /\ spawn_result # None
    /\ lock = "free"
    /\ lock' = "setup"
    /\ t_setup' = "replacing"
    /\ UNCHANGED <<AllButThreads, t_run>>

\* replace stores the child and drops the guard, or the warning is printed;
\* the hook returns.
T_SetupFinish ==
    /\ \/ t_setup = "replacing" /\ lock = "setup"
       \/ t_setup = "spawned" /\ spawn_result = None
    /\ setup_finish
    /\ lock' = IF lock = "setup" THEN "free" ELSE lock
    /\ t_setup' = "done"
    /\ UNCHANGED t_run

\* The run callback on a non-exit event.
T_DeliverOther ==
    /\ t_run = "idle"
    /\ \E event \in {"Ready", "WindowEvent"} : on_run_event(event, TRUE)
    /\ UNCHANGED <<pc, exitRequests, Threads>>

\* The run callback on an exit event reaches stop: self.child.lock()
T_StopLock ==
    /\ t_run = "idle"
    /\ lock = "free"
    /\ \E event \in {"ExitRequested", "Exit"} :
          /\ event = "ExitRequested" => exitRequests < MaxExitRequested
          /\ t_run' = event
          /\ exitRequests' = IF event = "ExitRequested" THEN exitRequests + 1
                             ELSE exitRequests
    /\ lock' = "run"
    /\ UNCHANGED <<env, fs, windows, cwd, resource_dir, dead, child, pc, spawn_result,
                   spawned, killed, waited, script_path, python, command, warnings,
                   stdout, startCalls, stopCalls, stopReturn, lastEvent,
                   setupResult, t_setup>>

\* stop takes the handle, kills, drops the guard; the event loop ends on Exit.
T_StopBody ==
    /\ t_run \in {"ExitRequested", "Exit"}
    /\ lock = "run"
    /\ \E killOk \in BOOLEAN : on_run_event(t_run, killOk)
    /\ lock' = "free"
    /\ t_run' = IF t_run = "Exit" THEN "ended" ELSE "idle"
    /\ UNCHANGED <<pc, exitRequests, t_setup>>

T_EnterSpawn == setup_enter_spawn

NextThreads ==
    \/ T_EnterSpawn
    \/ T_SpawnReturns
    \/ T_ReplaceLock
    \/ T_SetupFinish
    \/ T_DeliverOther
    \/ T_StopLock
    \/ T_StopBody
    \/ ChildExits

SpecThreads == Init /\ [][NextThreads]_vars

---------------------------------------------------------------------------
(* Properties                                                              *)

World == [child |-> child, killed |-> killed, waited |-> waited, ret |-> stopReturn]

KilledPids == {killed[i].pid : i \in DOMAIN killed}

\* The setup hook has returned after a successful spawn.
StartSucceeded == pc \in {"running", "exited"} /\ spawn_result # None

\* C1: after a successful start exactly one child process exists and the
\* stored handle is that child; once stop has run after it, no handle is
\* held and kill has been called on that child.
C1_StartThenStop ==
    /\ (StartSucceeded /\ stopCalls = 0) =>
          /\ child = spawn_result
          /\ spawned = {spawn_result[1]}
    /\ (StartSucceeded /\ stopCalls >= 1) =>
          /\ child = None
          /\ spawn_result[1] \in KilledPids

C1_Witness ==
    /\ StartSucceeded
    /\ stopCalls = 1
    /\ child = None
    /\ KilledPids = spawned
    /\ Cardinality(spawned) = 1

\* C2: in every reachable state, stop followed by stop leaves the same
\* handle and the same kill calls as one stop, whatever the kills return.
C2_StopIdempotent ==
    \A k1 \in BOOLEAN, k2 \in BOOLEAN :
        LET once == stop(World, k1)
            twice == stop(once, k2)
        IN  /\ twice.child = once.child
            /\ twice.killed = once.killed
            /\ twice = once

\* stop has run twice in a row on a supervisor that was Running.
C2_Witness ==
    /\ StartSucceeded
    /\ stopCalls = 2
    /\ Len(killed) = 1
    /\ child = None

\* The locator's candidates in the order the claims list them: the override
\* when set, the resource-relative names when the resource directory
\* resolves, the working-directory names.
CandidatePaths ==
    (IF env["TRADINGAGENTS_BACKEND_SCRIPT"] = None THEN <<>>
     ELSE << <<env["TRADINGAGENTS_BACKEND_SCRIPT"][1]>> >>)
    \o (IF resource_dir = None THEN <<>>
        ELSE << <<ResourceRoot, "run_backend.py">>,
                <<ResourceRoot, "../run_backend.py">>,
                <<ResourceRoot, "../../run_backend.py">> >>)
    \o (IF cwd = None
        THEN << <<".", "run_backend.py">>, <<".", "../run_backend.py">> >>
        ELSE << <<WorkDir, "run_backend.py">>, <<WorkDir, "../run_backend.py">> >>)

NoCandidateExists == \A i \in DOMAIN CandidatePaths : CandidatePaths[i] \notin fs

\* C3: once start has run with no script candidate on disk, the supervisor
\* is Idle (no handle, none pending), no interpreter was resolved, no spawn
\* was attempted and no process was created.
C3_NoScriptStaysIdle ==
    (startCalls >= 1 /\ NoCandidateExists) =>
        /\ child = None
        /\ spawn_result = None
        /\ script_path = None
        /\ python = None
        /\ command = None
        /\ spawned = {}

C3_Witness ==
    /\ NoCandidateExists
    /\ pc = "running"
    /\ startCalls = 1
    /\ child = None
    /\ warnings = 1

\* A spawn was attempted (the script was found) and the OS refused it.
SpawnFailed == command # None /\ spawn_result = None

\* C4: when the script is found and the spawn fails, no handle is stored and
\* no process exists, and the setup hook returns Ok: the application goes on
\* to run and is not aborted.
C4_SpawnFailureNonFatal ==
    SpawnFailed =>
        /\ child = None
        /\ spawned = {}
        /\ pc # "panicked"
        /\ setupResult # "Err"
        /\ (pc # "spawned" => setupResult = "Ok" /\ pc \in {"running", "exited"})

C4_Witness ==
    /\ SpawnFailed
    /\ script_path # None
    /\ pc = "running"
    /\ setupResult = "Ok"
    /\ child = None

\* The run is over: Exit was delivered.
RunOver == pc = "exited"

\* C5 as stated: in a finished run start was called exactly once and stop
\* exactly once.
C5_StopExactlyOnce == RunOver => (startCalls = 1 /\ stopCalls = 1)

\* C5 amended: start is called exactly once, at setup; stop is called once
\* for every exit event delivered (every ExitRequested and the final Exit),
\* hence at least once in a finished run, and kill is called at most once.
C5_StopOncePerExitEvent ==
    /\ startCalls = (IF pc = "setup" THEN 0 ELSE 1)
    /\ stopCalls = exitRequests + (IF RunOver THEN 1 ELSE 0)
    /\ (RunOver => stopCalls >= 1)
    /\ Len(killed) <= 1

C5_Witness ==
    /\ RunOver
    /\ startCalls = 1
    /\ exitRequests = 1
    /\ stopCalls = 2

\* The children created and not yet the target of a kill call.
Unkilled == spawned \ KilledPids

\* C6: at most one created child has not been killed, every such child is
\* the stored handle or the one the setup hook is about to store, and a
\* handle is only ever stored into an empty slot.
C6_AtMostOneLiveChild ==
    /\ [](/\ Cardinality(Unkilled) <= 1
          /\ \A p \in Unkilled :
                \/ child = Some(p)
                \/ (pc = "spawned" /\ spawn_result = Some(p)))
    /\ [][(child' # None /\ child' # child) => child = None]_vars

C6_Witness ==
    /\ pc = "running"
    /\ child # None
    /\ Unkilled = {child[1]}

\* C7: with no handle held, stop changes nothing and returns normally, in
\* every reachable state (before start, after a failed start, after an
\* earlier stop) and in every stop call the run callback makes.
C7_IdleStopIsNoOp ==
    /\ [](child = None =>
            \A k \in BOOLEAN : stop(World, k) = [World EXCEPT !.ret = "unit"])
    /\ [][(stopCalls' # stopCalls /\ child = None) =>
            /\ child' = None
            /\ killed' = killed
            /\ waited' = waited
            /\ spawned' = spawned
            /\ stopReturn' = "unit"]_vars

\* stop has run after a failed start.
C7_Witness ==
    /\ pc \in {"running", "exited"}
    /\ spawn_result = None
    /\ stopCalls >= 1
    /\ killed = <<>>
    /\ stopReturn = "unit"
    /\ child = None

\* C8: from Running, stop takes the handle, calls kill on it once and
\* returns normally for either outcome of the kill, without waiting; after
\* any stop call no handle is held, whatever the kill returned.
C8_StopSwallowsKillFailure ==
    /\ child # None =>
          \A k \in BOOLEAN :
              LET r == stop(World, k)
              IN  /\ r.child = None
                  /\ r.ret = "unit"
                  /\ r.waited = waited
                  /\ r.killed = Append(killed, [pid |-> child[1], ok |-> k])
    /\ stopCalls >= 1 =>
          /\ child = None
          /\ stopReturn = "unit"
          /\ waited = {}
    /\ (stopCalls >= 1 /\ spawn_result # None) =>
          /\ Len(killed) = 1
          /\ killed[1].pid = spawn_result[1]

\* stop found a handle and the kill failed.
C8_Witness ==
    /\ stopCalls >= 1
    /\ Len(killed) = 1
    /\ ~killed[1].ok
    /\ child = None
    /\ stopReturn = "unit"

OverridePath == PathBuf_from(env["TRADINGAGENTS_BACKEND_SCRIPT"][1])

OverrideExists ==
    /\ env["TRADINGAGENTS_BACKEND_SCRIPT"] # None
    /\ OverridePath \in fs

\* C9: when the script override names an existing file, the locator returns
\* exactly that file and the spawn is attempted with it as the only
\* argument, whichever other candidates exist.
C9_OverrideWins ==
    (startCalls >= 1 /\ OverrideExists) =>
        /\ script_path = Some(OverridePath)
        /\ command # None
        /\ command[1].args = <<OverridePath>>

\* The override exists together with every other candidate.
C9_Witness ==
    /\ startCalls = 1
    /\ OverrideExists
    /\ resource_dir # None
    /\ \A i \in DOMAIN CandidatePaths : CandidatePaths[i] \in fs
    /\ script_path = Some(OverridePath)
    /\ spawn_result # None

\* C10: the locator returns the first existing candidate of the fixed order,
\* and None exactly when no candidate exists; with the override unset and no
\* existing resource match, run_backend.py of the working directory is
\* returned when it exists.
C10_FirstExistingCandidate ==
    startCalls >= 1 =>
        /\ (script_path = None <=> NoCandidateExists)
        /\ script_path # None =>
              \E i \in DOMAIN CandidatePaths :
                  /\ script_path = Some(CandidatePaths[i])
                  /\ CandidatePaths[i] \in fs
                  /\ \A j \in 1..(i - 1) : CandidatePaths[j] \notin fs
        /\ ( /\ env["TRADINGAGENTS_BACKEND_SCRIPT"] = None
             /\ \A n \in {"run_backend.py", "../run_backend.py", "../../run_backend.py"} :
                    <<ResourceRoot, n>> \notin fs
             /\ <<WorkDir, "run_backend.py">> \in fs
             /\ cwd # None )
           => script_path = Some(<<WorkDir, "run_backend.py">>)

\* Override and virtual environment unset, no resource match, the script in
\* the working directory.
C10_Witness ==
    /\ startCalls = 1
    /\ env["TRADINGAGENTS_BACKEND_SCRIPT"] = None
    /\ env["VIRTUAL_ENV"] = None
    /\ resource_dir # None
    /\ fs = {<<WorkDir, "run_backend.py">>}
    /\ script_path = Some(<<WorkDir, "run_backend.py">>)

\* The interpreter override and the virtual environment as the claims see them.
PyOverridePath == <<env["TRADINGAGENTS_PYTHON"][1]>>

PyOverrideUsable == env["TRADINGAGENTS_PYTHON"] # None /\ PyOverridePath \in fs

VenvPythonPath ==
    IF windows THEN <<env["VIRTUAL_ENV"][1], "Scripts", "python.exe">>
    ELSE <<env["VIRTUAL_ENV"][1], "bin", "python">>

VenvUsable == env["VIRTUAL_ENV"] # None /\ VenvPythonPath \in fs

PlatformDefault == IF windows THEN <<"python.exe">> ELSE <<"python3">>

\* C11: when the interpreter override names a path that does not exist, the
\* resolver does not return it: it returns the virtual environment's
\* interpreter when VIRTUAL_ENV is set and that interpreter exists, and the
\* platform default otherwise; the same holds of the interpreter start used.
C11_MissingOverrideFallsThrough ==
    (env["TRADINGAGENTS_PYTHON"] # None /\ PyOverridePath \notin fs) =>
        LET expected == IF VenvUsable THEN VenvPythonPath ELSE PlatformDefault
        IN  /\ preferred_python # PyOverridePath
            /\ preferred_python = expected
            /\ python # None =>
                  /\ python = Some(expected)
                  /\ command[1].program = expected

\* start resolved the interpreter with a missing override and a usable
\* virtual environment.
C11_Witness ==
    /\ env["TRADINGAGENTS_PYTHON"] # None
    /\ PyOverridePath \notin fs
    /\ VenvUsable
    /\ python = Some(VenvPythonPath)

\* C12: when the interpreter override names an existing path, the resolver
\* returns exactly that path, with or without a virtual environment and
\* whether or not the virtual environment's interpreter exists.
C12_ExistingOverrideWins ==
    PyOverrideUsable =>
        /\ preferred_python = PyOverridePath
        /\ python # None =>
              /\ python = Some(PyOverridePath)
              /\ command[1].program = PyOverridePath

\* start resolved the interpreter with an existing override while a virtual
\* environment with an existing interpreter was active.
C12_Witness ==
    /\ PyOverrideUsable
    /\ VenvUsable
    /\ python = Some(<<PyOverride>>)

\* C13: the resolver always returns a path (a non-empty sequence of path
\* pieces); when neither the override nor the virtual environment's
\* interpreter is usable it returns the bare platform default name, python3
\* off Windows, although that name is not a path known to exist.
C13_FallsBackToPlatformDefault ==
    /\ preferred_python \in Seq(STRING)
    /\ Len(preferred_python) >= 1
    /\ (~PyOverrideUsable /\ ~VenvUsable) =>
          /\ preferred_python = PlatformDefault
          /\ preferred_python \notin fs
          /\ ~windows => preferred_python = <<"python3">>
          /\ python # None => python = Some(PlatformDefault)

\* start resolved the interpreter off Windows with no override and no
\* virtual environment.
C13_Witness ==
    /\ ~windows
    /\ env["TRADINGAGENTS_PYTHON"] = None
    /\ env["VIRTUAL_ENV"] = None
    /\ python = Some(<<"python3">>)

\* The setup hook has returned.
SetupReturned == pc \in {"running", "exited"}

\* C14: a failed start, script not found or spawn refused, prints exactly
\* one line, the same warning in both cases, and the application goes on to
\* run; a successful start prints nothing; nothing is printed before the
\* setup hook decides.
C14_OneWarningOnFailure ==
    /\ ~SetupReturned => (stdout = <<>> /\ warnings = 0)
    /\ (SetupReturned /\ spawn_result = None) =>
          /\ stdout = <<WarningLine>>
          /\ warnings = 1
          /\ setupResult = "Ok"
    /\ (SetupReturned /\ spawn_result # None) =>
          /\ stdout = <<>>
          /\ warnings = 0
    /\ pc # "panicked"

\* The spawn was refused, the warning printed, and the application ran to
\* its exit.
C14_Witness ==
    /\ pc = "exited"
    /\ SpawnFailed
    /\ stdout = <<WarningLine>>

\* C15: the mutex is held only inside replace and inside stop; the thread
\* that is executing spawn_backend never holds it.
C15_NoLockAcrossSpawn ==
    /\ lock \in {"free", "setup", "run"}
    /\ t_setup = "spawning" => lock # "setup"
    /\ lock = "setup" => t_setup = "replacing"
    /\ lock = "run" => t_run \in {"ExitRequested", "Exit"}

\* spawn_backend is in progress on the setup thread while the run thread is
\* inside stop with the mutex.
C15_Witness ==
    /\ t_setup = "spawning"
    /\ lock = "run"

\* Both callbacks are over: the setup hook returned and Exit was handled.
AllCallbacksDone == t_setup = "done" /\ t_run = "ended"

C17_HandleLifecycle ==
    /\ [](pc = "setup" => child = None)
    /\ [][child' # child =>
            \/ /\ child = None
               /\ spawn_result # None
               /\ child' = spawn_result
               /\ child'[1] \in spawned
               /\ killed = <<>>
               /\ stopCalls' = stopCalls
            \/ /\ child # None
               /\ child' = None
               /\ stopCalls' = stopCalls + 1
               /\ killed' = Append(killed, killed'[Len(killed')])
               /\ killed'[Len(killed')].pid = child[1]]_vars
    /\ [](Len(killed) <= 1)
    /\ [](killed # <<>> => child = None)

\* The handle was populated, then taken, and the event loop went on.
C17_Witness ==
    /\ pc = "running"
    /\ spawn_result # None
    /\ stopCalls = 1
    /\ Len(killed) = 1
    /\ child = None
    /\ lastEvent = "Ready"

\* C18: spawn_backend is called at most once in a run and at most one
\* process is ever created; after a failed start nothing is spawned or
\* stored by any later step.
C18_NoRetry ==
    /\ [](/\ startCalls <= 1
          /\ Cardinality(spawned) <= 1
          /\ (command # None => startCalls = 1))
    /\ []((SetupReturned /\ spawn_result = None) => (child = None /\ spawned = {}))
    /\ [][(SetupReturned /\ spawn_result = None) =>
            /\ child' = None
            /\ spawned' = spawned
            /\ startCalls' = startCalls
            /\ command' = command
            /\ spawn_result' = None]_vars

\* The start failed and the application ran to its exit without a backend.
C18_Witness ==
    /\ pc = "exited"
    /\ spawn_result = None
    /\ startCalls = 1
    /\ warnings = 1
    /\ child = None
    /\ spawned = {}
    /\ exitRequests = 1

\* C19: the child exiting on its own changes nothing in the supervisor: the
\* handle of a dead child stays held until a stop call, the handle is given
\* up only in a stop call, and no second process is spawned.
C19_ChildExitUnnoticed ==
    /\ []((SetupReturned /\ spawn_result # None /\ stopCalls = 0) =>
            (child = spawn_result /\ spawned = {spawn_result[1]}))
    /\ [][dead' # dead =>
            /\ child' = child
            /\ spawned' = spawned
            /\ startCalls' = startCalls
            /\ killed' = killed
            /\ pc' = pc]_vars
    /\ [][(child # None /\ child' # child) =>
            (child' = None /\ stopCalls' = stopCalls + 1)]_vars
    /\ [](Cardinality(spawned) <= 1 /\ startCalls <= 1)

\* The child has exited, the run callback has handled an event since setup,
\* and the handle is still held.
C19_Witness ==
    /\ pc = "running"
    /\ child # None
    /\ child[1] \in dead
    /\ lastEvent = "WindowEvent"
    /\ stopCalls = 0

\* C20: kill is called at most once on any child, only on a child that was
\* spawned and is the stored handle at that moment, and the handle is gone
\* once it was called, for every sequence of exit events.
C20_KillAtMostOnce ==
    /\ [](/\ \A i \in DOMAIN killed, j \in DOMAIN killed :
                killed[i].pid = killed[j].pid => i = j
          /\ KilledPids \subseteq spawned)
    /\ [][killed' # killed =>
            /\ child # None
            /\ child[1] \in spawned
            /\ \E k \in BOOLEAN : killed' = Append(killed, [pid |-> child[1], ok |-> k])
            /\ child' = None]_vars

\* ExitRequested and Exit were both handled and the one child was killed once.
C20_Witness ==
    /\ pc = "exited"
    /\ exitRequests = 1
    /\ lastEvent = "Exit"
    /\ Len(killed) = 1
    /\ KilledPids = spawned

====
